---- MODULE Spec2Model ----
(***************************************************************************)
(* Model of py/samples/ollama-hello/src/hello.py: the Ollama "hello"       *)
(* sample.  The module declares two models, one tool and three flows; a    *)
(* flow builds one request, awaits ai.generate and post-processes the      *)
(* response; main() awaits the three flows one after the other.            *)
(*                                                                         *)
(* Text sent to the backend is a string.  Text received from the backend   *)
(* (message_raw) is the sequence of its JSON lexemes.                      *)
(***************************************************************************)
EXTENDS Integers, Sequences, FiniteSets, TLC

VARIABLES
    dunder_name,   \* __name__ of the module: "__main__" when run as a script
    proc,          \* the interpreter: "loaded", "crashed" or "exited"
    proc_error,    \* the exception that ended the interpreter, or "none"
    main_pc,       \* position of the main() coroutine
    cur,           \* the flow invocation in progress (or the last one)
    flow_pc,       \* position of that flow's coroutine
    outstanding,   \* generate requests sent and not answered yet
    gen,           \* what the awaited ai.generate call delivered
    outcome,       \* how the flow invocation ended
    invocations,   \* every flow invocation so far, in order
    calls,         \* every generate call sent to the backend, in order
    stdout,        \* the values printed by main()
    tool_calls,    \* number of tool calls the backend made for the outstanding call
    tool_last      \* the last of them: the tool's input and output

vars == <<dunder_name, proc, proc_error, main_pc, cur, flow_pc, outstanding,
          gen, outcome, invocations, calls, stdout, tool_calls, tool_last>>

----------------------------------------------------------------------------
(* Bounds of the model *)

MaxInt == 3
MaxInvocations == 2
MaxToolCalls == 2

IntRange == (0 - MaxInt)..MaxInt
HiInputs == {"John Doe", ""}

----------------------------------------------------------------------------
(* Module-level declarations *)

GEMMA_MODEL == "gemma2:latest"

MISTRAL_MODEL == "mistral-nemo:latest"

\* genkit.plugins.ollama.ollama_name: the plugin-qualified model name
ollama_name(name) == "ollama/" \o name

plugin_params ==
    [models |-> << [name |-> GEMMA_MODEL, api_type |-> "chat"],
                   [name |-> MISTRAL_MODEL, api_type |-> "chat"] >>]

\* ai = Genkit(plugins=[Ollama(plugin_params)], model=ollama_name(GEMMA_MODEL))
ai == [plugin_params |-> plugin_params, model |-> ollama_name(GEMMA_MODEL)]

\* pydantic models: field name -> declared type
HelloSchema == [text |-> "str", receiver |-> "str"]

GablorkenOutputSchema == [result |-> "int"]

SchemaOf(cls) ==
    IF cls = "HelloSchema" THEN HelloSchema ELSE GablorkenOutputSchema

\* The names bound in the module's globals when its top level has run:
\* the imported names and the module's own assignments, classes and functions.
ModuleGlobals ==
    {"BaseModel", "Genkit", "Message", "Role", "TextPart", "Ollama",
     "ollama_name", "ModelDefinition", "OllamaAPITypes", "OllamaPluginParams",
     "GEMMA_MODEL", "MISTRAL_MODEL", "plugin_params", "ai", "HelloSchema",
     "on_chunk", "GablorkenOutputSchema", "gablorken_tool", "say_hi",
     "calculate_gablorken", "say_hi_constrained", "main"}

Builtins == {"print", "int", "str"}

\* Python's name resolution for a global name used in a function body
NameBound(name) == name \in ModuleGlobals \cup Builtins

\* Faulty variant of gablorken_tool: the subtraction binds to the factor
gablorken_tool_precedence(input) == input * (3 - 5)

\* @ai.tool('calculates a gablorken')
gablorken_tool(input) == input * 3 - 5

RegisteredTools ==
    [gablorken_tool |-> [description |-> "calculates a gablorken"]]

----------------------------------------------------------------------------
(* str(int), as the f-string of calculate_gablorken formats value *)

Digit(d) == SubSeq("0123456789", d + 1, d + 1)

RECURSIVE nat_str(_)
nat_str(n) == IF n < 10 THEN Digit(n) ELSE nat_str(n \div 10) \o Digit(n % 10)

int_str(n) == IF n < 0 THEN "-" \o nat_str(0 - n) ELSE nat_str(n)

----------------------------------------------------------------------------
(* Requests *)

TextPart(text) == [text |-> text]

Message(role, content) == [role |-> role, content |-> content]

NoSchema == "None"

\* ai.generate(model=..., messages=..., output_schema=..., tools=...);
\* a call without model= uses the model the Genkit instance was built with.
GenerateRequest(model, messages, output_schema, tools) ==
    [model |-> IF model = "None" THEN ai.model ELSE model,
     messages |-> messages,
     output_schema |-> output_schema,
     tools |-> tools]

\* Faulty variant of say_hi_request: the greeting loses its separating blank
say_hi_request_no_blank(hi_input) ==
    GenerateRequest(ollama_name(GEMMA_MODEL),
                    << Message("user", << TextPart("hi" \o hi_input) >>) >>,
                    NoSchema, <<>>)

say_hi_request(hi_input) ==
    GenerateRequest(ollama_name(GEMMA_MODEL),
                    << Message("user", << TextPart("hi " \o hi_input) >>) >>,
                    NoSchema, <<>>)

\* Faulty variant of calculate_gablorken_request: tools= is left out
calculate_gablorken_request_no_tools(value) ==
    GenerateRequest(ollama_name(MISTRAL_MODEL),
                    << Message("user",
                         << TextPart("run \"gablorken_tool\" for " \o int_str(value)) >>) >>,
                    "GablorkenOutputSchema", <<>>)

calculate_gablorken_request(value) ==
    GenerateRequest(ollama_name(MISTRAL_MODEL),
                    << Message("user",
                         << TextPart("run \"gablorken_tool\" for " \o int_str(value)) >>) >>,
                    "GablorkenOutputSchema", << "gablorken_tool" >>)

say_hi_constrained_request(hi_input) ==
    GenerateRequest("None",
                    << Message("user", << TextPart("hi " \o hi_input) >>) >>,
                    "HelloSchema", <<>>)

Flows == {"say_hi", "say_hi_constrained", "calculate_gablorken"}

RequestOf(flow, input) ==
    CASE flow = "say_hi" -> say_hi_request(input)
      [] flow = "say_hi_constrained" -> say_hi_constrained_request(input)
      [] flow = "calculate_gablorken" -> calculate_gablorken_request(input)

\* Faulty variant of CallsOf: the flow sends its request twice
CallsOf_twice(flow, input) == << RequestOf(flow, input), RequestOf(flow, input) >>

\* The generate calls a flow sends when it is invoked: one ai.generate each
CallsOf(flow, input) == << RequestOf(flow, input) >>

InputsOf(flow) == IF flow = "calculate_gablorken" THEN IntRange ELSE HiInputs

----------------------------------------------------------------------------
(* Responses.  message_raw is the sequence of the JSON lexemes of the text. *)

LBrace == [t |-> "{", s |-> "", n |-> 0]
RBrace == [t |-> "}", s |-> "", n |-> 0]
Colon == [t |-> ":", s |-> "", n |-> 0]
Comma == [t |-> ",", s |-> "", n |-> 0]
Str(s) == [t |-> "str", s |-> s, n |-> 0]
Num(n) == [t |-> "int", s |-> "", n |-> n]
Bare(s) == [t |-> "bare", s |-> s, n |-> 0]

IsValueToken(tok) == tok.t \in {"str", "int"}

\* The members of an object, between its braces: key : value (, key : value)*
MembersWellFormed(body) ==
    /\ Len(body) % 4 = 3
    /\ \A i \in 1..Len(body) :
          CASE i % 4 = 1 -> body[i].t = "str"
            [] i % 4 = 2 -> body[i] = Colon
            [] i % 4 = 3 -> IsValueToken(body[i])
            [] OTHER -> body[i] = Comma

\* The dict of an object's members: a repeated key keeps its last value
MembersDict(body) ==
    LET keyAt == {i \in 1..Len(body) : i % 4 = 1}
        keys == {body[i].s : i \in keyAt}
        last(k) == CHOOSE i \in keyAt :
                      /\ body[i].s = k
                      /\ \A j \in keyAt : body[j].s = k => j <= i
    IN  [k \in keys |-> body[last(k) + 2]]

\* json.loads(message_raw): [ok, kind, dict, scalar]; not ok is JSONDecodeError
json_loads(raw) ==
    LET bad == [ok |-> FALSE, kind |-> "none", dict |-> <<>>, scalar |-> Bare("")]
    IN  IF Len(raw) = 1 /\ IsValueToken(raw[1])
        THEN [ok |-> TRUE, kind |-> "scalar", dict |-> <<>>, scalar |-> raw[1]]
        ELSE IF Len(raw) >= 2 /\ raw[1] = LBrace /\ raw[Len(raw)] = RBrace
        THEN LET body == SubSeq(raw, 2, Len(raw) - 1)
             IN  IF body = <<>>
                 THEN [ok |-> TRUE, kind |-> "dict", dict |-> <<>>, scalar |-> Bare("")]
                 ELSE IF MembersWellFormed(body)
                 THEN [ok |-> TRUE, kind |-> "dict", dict |-> MembersDict(body),
                       scalar |-> Bare("")]
                 ELSE bad
        ELSE bad

\* A field of declared type ty accepts the JSON value tok
FieldAccepts(ty, tok) == tok.t = ty

\* cls.model_validate(data): data must be a dict holding every declared field
\* with a value of its type; undeclared keys are ignored.
Validates(schema, data) ==
    /\ data.kind = "dict"
    /\ \A f \in DOMAIN schema :
          /\ f \in DOMAIN data.dict
          /\ FieldAccepts(schema[f], data.dict[f])

model_validate(cls, data) ==
    [cls |-> cls, fields |-> [f \in DOMAIN SchemaOf(cls) |-> data.dict[f]]]

TextContent(raw) == [root |-> "TextPart", text |-> raw]
ToolRequestContent == [root |-> "ToolRequestPart", text |-> <<>>]

Response(content) == [content |-> content]

HelloJson(t, r) ==
    << LBrace, Str("text"), Colon, Str(t), Comma,
       Str("receiver"), Colon, Str(r), RBrace >>

ResultJson(n) == << LBrace, Str("result"), Colon, Num(n), RBrace >>

\* What the backend may answer
ResponseTexts ==
    {HelloJson("hi " \o i, i) : i \in HiInputs}
    \cup {ResultJson(n) : n \in {gablorken_tool(3), gablorken_tool(0 - 1), 0}}
    \cup { << LBrace, Str("receiver"), Colon, Str("John Doe"), Comma,
              Str("text"), Colon, Str("hello"), Comma,
              Str("mood"), Colon, Num(1), RBrace >>,
           << LBrace, Str("text"), Colon, Str("hi John Doe"), RBrace >>,
           << LBrace, Str("text"), Colon, Num(1), Comma,
              Str("receiver"), Colon, Str("John Doe"), RBrace >>,
           << LBrace, Str("result"), Colon, Str("four"), RBrace >>,
           << LBrace, Str("text"), Colon, Str("hi John Doe"), Comma >>,
           << Bare("Hello"), Bare("John") >>,
           << Num(4) >>,
           << LBrace, RBrace >> }

Responses ==
    {Response(<< TextContent(raw) >>) : raw \in ResponseTexts}
    \cup { Response(<<>>),
           Response(<< ToolRequestContent >>),
           Response(<< TextContent(ResultJson(4)), TextContent(<< Bare("done") >>) >>),
           Response(<< TextContent(<< Bare("Sure") >>),
                       TextContent(HelloJson("hi John Doe", "John Doe")) >>) }

NoResponse == Response(<<>>)

TransportErrors == {"ConnectionError"}

----------------------------------------------------------------------------
(* Flow bodies after the awaited generate call has returned *)

None == [cls |-> "NoneType"]

Return(value) == [kind |-> "return", error |-> "none", value |-> value]

Raise(error) == [kind |-> "raise", error |-> error, value |-> None]

\* message_raw = response.message.content[0].root.text
\* return cls.model_validate(json.loads(message_raw))
ParseAndValidate(cls, response) ==
    IF Len(response.content) = 0 THEN Raise("IndexError")
    ELSE IF response.content[1].root # "TextPart" THEN Raise("AttributeError")
    ELSE IF ~NameBound("json") THEN Raise("NameError")
    ELSE LET data == json_loads(response.content[1].text)
         IN  IF ~data.ok THEN Raise("JSONDecodeError")
             ELSE IF ~Validates(SchemaOf(cls), data) THEN Raise("ValidationError")
             ELSE Return(model_validate(cls, data))

\* say_hi: return await ai.generate(...)
say_hi_result(response) ==
    Return([cls |-> "GenerateResponse", response |-> response])

calculate_gablorken_result(response) ==
    ParseAndValidate("GablorkenOutputSchema", response)

say_hi_constrained_result(response) ==
    ParseAndValidate("HelloSchema", response)

ResultOf(flow, response) ==
    CASE flow = "say_hi" -> say_hi_result(response)
      [] flow = "say_hi_constrained" -> say_hi_constrained_result(response)
      [] flow = "calculate_gablorken" -> calculate_gablorken_result(response)

----------------------------------------------------------------------------
(* The state machine *)

NoInv == [flow |-> "none", input |-> "", by |-> "none"]

NoGen == [ok |-> FALSE, response |-> NoResponse, error |-> "none"]

NoOutcome == [kind |-> "none", error |-> "none", value |-> None]

NoToolCall == [name |-> "none", input |-> 0, output |-> 0]

\* async def main(): the three awaited flow calls, in statement order
MainBody ==
    << [flow |-> "say_hi", input |-> "John Doe"],
       [flow |-> "say_hi_constrained", input |-> "John Doe"],
       [flow |-> "calculate_gablorken", input |-> 3] >>

MainPc(state, stmt, error) == [state |-> state, stmt |-> stmt, error |-> error]

Init ==
    /\ dunder_name \in {"__main__", "hello"}
    /\ proc = "loaded"
    /\ proc_error = "none"
    /\ main_pc = MainPc("idle", 1, "none")
    /\ cur = NoInv
    /\ flow_pc = "idle"
    /\ outstanding = {}
    /\ gen = NoGen
    /\ outcome = NoOutcome
    /\ invocations = <<>>
    /\ calls = <<>>
    /\ stdout = <<>>
    /\ tool_calls = 0
    /\ tool_last = NoToolCall

CallRecords(flow, input, by) ==
    LET reqs == CallsOf(flow, input)
    IN  [i \in 1..Len(reqs) |->
            [inv |-> Len(invocations) + 1, flow |-> flow, by |-> by,
             request |-> reqs[i]]]

\* A flow is called: its body runs up to the await of ai.generate
Invoke(flow, input, by) ==
    LET sent == CallRecords(flow, input, by)
    IN  /\ cur' = [flow |-> flow, input |-> input, by |-> by]
        /\ invocations' = Append(invocations, cur')
        /\ calls' = calls \o sent
        /\ outstanding' = outstanding \cup {sent[i] : i \in 1..Len(sent)}
        /\ flow_pc' = "awaiting"
        /\ gen' = NoGen
        /\ outcome' = NoOutcome
        /\ tool_calls' = 0
        /\ tool_last' = NoToolCall

\* Faulty variant of Awaited: main() goes on without awaiting the flow it started
Awaited_not == flow_pc \in {"awaiting", "ready", "done"}

\* An await of a flow completes when the flow's coroutine has finished
Awaited == flow_pc = "done"

FlowFree == flow_pc \in {"idle", "done"}

\* if __name__ == '__main__': asyncio.run(main())
EntryPoint ==
    /\ dunder_name = "__main__"
    /\ proc = "loaded"
    /\ main_pc.state = "idle"
    /\ IF NameBound("asyncio")
       THEN /\ main_pc' = MainPc("stmt", 1, "none")
            /\ UNCHANGED <<proc, proc_error>>
       ELSE /\ proc' = "crashed"
            /\ proc_error' = "NameError"
            /\ UNCHANGED main_pc
    /\ UNCHANGED <<dunder_name, cur, flow_pc, outstanding, gen, outcome,
                   invocations, calls, stdout, tool_calls, tool_last>>

\* An importing caller awaits main() (a caller uses main() or the flows)
CallMain ==
    /\ dunder_name # "__main__"
    /\ proc = "loaded"
    /\ main_pc.state = "idle"
    /\ invocations = <<>>
    /\ main_pc' = MainPc("stmt", 1, "none")
    /\ UNCHANGED <<dunder_name, proc, proc_error, cur, flow_pc, outstanding, gen,
                   outcome, invocations, calls, stdout, tool_calls, tool_last>>

DirectInvocations == {i \in 1..Len(invocations) : invocations[i].by = "caller"}

\* An importing caller awaits one of the flows
CallFlow(flow, input) ==
    /\ dunder_name # "__main__"
    /\ proc = "loaded"
    /\ main_pc.state = "idle"
    /\ FlowFree
    /\ Cardinality(DirectInvocations) < MaxInvocations
    /\ Invoke(flow, input, "caller")
    /\ UNCHANGED <<dunder_name, proc, proc_error, main_pc, stdout>>

\* main(): the statement at main_pc.stmt calls its flow and awaits it
MainLine ==
    /\ proc = "loaded"
    /\ main_pc.state = "stmt"
    /\ Invoke(MainBody[main_pc.stmt].flow, MainBody[main_pc.stmt].input, "main")
    /\ main_pc' = MainPc("await", main_pc.stmt, "none")
    /\ UNCHANGED <<dunder_name, proc, proc_error, stdout>>

\* Faulty variant of MainAfter: main() swallows the exception and goes on
MainAfter_swallow(outc, stmt) ==
    IF stmt < Len(MainBody) THEN MainPc("stmt", stmt + 1, "none")
    ELSE MainPc("done", stmt, "none")

\* Where main() goes when the flow awaited by statement stmt ended as outc:
\* nothing catches an exception, a returned value is printed.
MainAfter(outc, stmt) ==
    IF outc.kind = "raise" THEN MainPc("raised", stmt, outc.error)
    ELSE IF stmt < Len(MainBody) THEN MainPc("stmt", stmt + 1, "none")
    ELSE MainPc("done", stmt, "none")

\* main(): the awaited flow has finished; print its value or propagate
MainResume ==
    /\ proc = "loaded"
    /\ main_pc.state = "await"
    /\ Awaited
    /\ main_pc' = MainAfter(outcome, main_pc.stmt)
    /\ stdout' = IF main_pc'.state = "raised" THEN stdout
                 ELSE Append(stdout, outcome.value)
    /\ IF dunder_name = "__main__" /\ main_pc'.state = "raised"
       THEN proc' = "crashed" /\ proc_error' = main_pc'.error
       ELSE IF dunder_name = "__main__" /\ main_pc'.state = "done"
       THEN proc' = "exited" /\ UNCHANGED proc_error
       ELSE UNCHANGED <<proc, proc_error>>
    /\ UNCHANGED <<dunder_name, cur, flow_pc, outstanding, gen, outcome,
                   invocations, calls, tool_calls, tool_last>>

Range(seq) == {seq[i] : i \in 1..Len(seq)}

\* The backend invokes the declared tool while it generates
BackendToolCall(i) ==
    /\ \E c \in outstanding : "gablorken_tool" \in Range(c.request.tools)
    /\ tool_calls < MaxToolCalls
    /\ tool_calls' = tool_calls + 1
    /\ tool_last' = [name |-> "gablorken_tool", input |-> i,
                     output |-> gablorken_tool(i)]
    /\ UNCHANGED <<dunder_name, proc, proc_error, main_pc, cur, flow_pc,
                   outstanding, gen, outcome, invocations, calls, stdout>>

\* The backend answers an outstanding call
BackendRespond(response) ==
    /\ flow_pc = "awaiting"
    /\ \E c \in outstanding :
          /\ c.inv = Len(invocations)
          /\ outstanding' = outstanding \ {c}
    /\ gen' = [ok |-> TRUE, response |-> response, error |-> "none"]
    /\ flow_pc' = "ready"
    /\ tool_calls' = 0
    /\ tool_last' = NoToolCall
    /\ UNCHANGED <<dunder_name, proc, proc_error, main_pc, cur, outcome,
                   invocations, calls, stdout>>

\* The call fails in the transport
BackendFail(error) ==
    /\ flow_pc = "awaiting"
    /\ \E c \in outstanding :
          /\ c.inv = Len(invocations)
          /\ outstanding' = outstanding \ {c}
    /\ gen' = [ok |-> FALSE, response |-> NoResponse, error |-> error]
    /\ flow_pc' = "ready"
    /\ tool_calls' = 0
    /\ tool_last' = NoToolCall
    /\ UNCHANGED <<dunder_name, proc, proc_error, main_pc, cur, outcome,
                   invocations, calls, stdout>>

\* The flow resumes after its await and runs to its end
FlowResume ==
    /\ flow_pc = "ready"
    /\ outcome' = IF gen.ok THEN ResultOf(cur.flow, gen.response)
                  ELSE Raise(gen.error)
    /\ flow_pc' = "done"
    /\ UNCHANGED <<dunder_name, proc, proc_error, main_pc, cur, outstanding, gen,
                   invocations, calls, stdout, tool_calls, tool_last>>

Next ==
    \/ EntryPoint
    \/ CallMain
    \/ \E flow \in Flows : \E input \in InputsOf(flow) : CallFlow(flow, input)
    \/ MainLine
    \/ MainResume
    \/ \E i \in IntRange : BackendToolCall(i)
    \/ \E response \in Responses : BackendRespond(response)
    \/ \E error \in TransportErrors : BackendFail(error)
    \/ FlowResume

Spec == Init /\ [][Next]_vars

----------------------------------------------------------------------------
(* Observations used by the properties *)

FlowsCalled(cs) == [i \in 1..Len(cs) |-> cs[i].flow]

MainOrder == [i \in 1..Len(MainBody) |-> MainBody[i].flow]

IsMainCall(c) == c.by = "main"

MainCalls == SelectSeq(calls, IsMainCall)

CallsOfInv(k) == {i \in 1..Len(calls) : calls[i].inv = k}

LastCall == calls[Len(calls)]

HasFirstText(response) ==
    /\ Len(response.content) > 0
    /\ response.content[1].root = "TextPart"

FirstText(response) == response.content[1].text

\* Errors that a backend answer can cause in a flow
BackendCaused ==
    TransportErrors
    \cup {"IndexError", "AttributeError", "JSONDecodeError", "ValidationError"}

Finished(flow) == flow_pc = "done" /\ cur.flow = flow

Contains(text, sub) ==
    \E i \in 1..Len(text) :
        /\ i + Len(sub) - 1 <= Len(text)
        /\ SubSeq(text, i, i + Len(sub) - 1) = sub

DigitVal(c) ==
    CASE c = "0" -> 0 [] c = "1" -> 1 [] c = "2" -> 2 [] c = "3" -> 3
      [] c = "4" -> 4 [] c = "5" -> 5 [] c = "6" -> 6 [] c = "7" -> 7
      [] c = "8" -> 8 [] c = "9" -> 9

AllDigits(s) ==
    /\ Len(s) > 0
    /\ \A i \in 1..Len(s) :
          SubSeq(s, i, i) \in {"0", "1", "2", "3", "4", "5", "6", "7", "8", "9"}

RECURSIVE NatVal(_)
NatVal(s) ==
    IF Len(s) = 0 THEN 0
    ELSE NatVal(SubSeq(s, 1, Len(s) - 1)) * 10 + DigitVal(SubSeq(s, Len(s), Len(s)))

\* The integer a decimal numeral denotes
ParseInt(s) ==
    IF AllDigits(s) THEN [ok |-> TRUE, n |-> NatVal(s)]
    ELSE IF Len(s) > 1 /\ SubSeq(s, 1, 1) = "-" /\ AllDigits(SubSeq(s, 2, Len(s)))
    THEN [ok |-> TRUE, n |-> 0 - NatVal(SubSeq(s, 2, Len(s)))]
    ELSE [ok |-> FALSE, n |-> 0]

\* text ends with the decimal numeral of v
EndsWithInt(text, v) ==
    \E i \in 1..Len(text) :
        /\ ParseInt(SubSeq(text, i, Len(text))) = [ok |-> TRUE, n |-> v]
        /\ i > 1 => SubSeq(text, i - 1, i - 1) = " "

----------------------------------------------------------------------------
(* C1: running the entry point (the __main__ block) makes exactly three     *)
(* backend calls, in the order say_hi, say_hi_constrained,                  *)
(* calculate_gablorken, when no backend answer causes a failure.            *)
C1_EntryPointMakesThreeCalls ==
    (dunder_name = "__main__" /\ proc # "loaded" /\ proc_error \notin BackendCaused)
        => FlowsCalled(calls) = MainOrder

(* C2: say_hi_constrained, given a response whose first text part is a JSON *)
(* object with string fields text=t and receiver=r, returns a HelloSchema   *)
(* record with text = t and receiver = r.                                   *)
C2_ConstrainedReturnsRecord ==
    (/\ Finished("say_hi_constrained")
     /\ gen.ok
     /\ HasFirstText(gen.response)
     /\ json_loads(FirstText(gen.response)).ok
     /\ Validates(HelloSchema, json_loads(FirstText(gen.response))))
        => LET data == json_loads(FirstText(gen.response))
           IN  /\ outcome.kind = "return"
               /\ outcome.value.cls = "HelloSchema"
               /\ outcome.value.fields.text.s = data.dict.text.s
               /\ outcome.value.fields.receiver.s = data.dict.receiver.s

(* C3: calculate_gablorken, given a response whose first text part is the   *)
(* JSON object {"result": n} with n an integer, returns a                   *)
(* GablorkenOutputSchema record with result = n.                            *)
C3_GablorkenReturnsRecord ==
    (/\ Finished("calculate_gablorken")
     /\ gen.ok
     /\ HasFirstText(gen.response)
     /\ json_loads(FirstText(gen.response)).ok
     /\ json_loads(FirstText(gen.response)).kind = "dict"
     /\ DOMAIN json_loads(FirstText(gen.response)).dict = {"result"}
     /\ json_loads(FirstText(gen.response)).dict.result.t = "int")
        => LET data == json_loads(FirstText(gen.response))
           IN  /\ outcome.kind = "return"
               /\ outcome.value.cls = "GablorkenOutputSchema"
               /\ outcome.value.fields.result.n = data.dict.result.n

(* C4: say_hi_constrained, given a response whose text is not valid JSON or *)
(* does not match HelloSchema, ends with a validation error raised to the   *)
(* caller and returns no record.                                            *)
C4_ConstrainedRaisesValidationError ==
    (/\ Finished("say_hi_constrained")
     /\ gen.ok
     /\ HasFirstText(gen.response)
     /\ ~Validates(HelloSchema, json_loads(FirstText(gen.response))))
        => /\ outcome.kind = "raise"
           /\ outcome.error \in {"JSONDecodeError", "ValidationError"}

(* C5: gablorken_tool is a pure function of its integer argument: every     *)
(* call with input i returns i * 3 - 5 (3 gives 4, 0 gives -5, -1 gives     *)
(* -8), whatever was called before it.                                      *)
C5_ToolComputesGablorken ==
    /\ gablorken_tool(3) = 4
    /\ gablorken_tool(0) = 0 - 5
    /\ gablorken_tool(0 - 1) = 0 - 8
    /\ tool_calls > 0 =>
          /\ tool_last.input \in IntRange
          /\ tool_last.output = tool_last.input * 3 - 5

C5_Witness ==
    /\ tool_calls = 2
    /\ tool_last.input = 0 - 1
    /\ tool_last.output = 0 - 8

C7_OneCallPerInvocation ==
    /\ \A k \in 1..Len(invocations) :
          /\ Cardinality(CallsOfInv(k)) = 1
          /\ \A i \in CallsOfInv(k) :
                /\ calls[i].flow = invocations[k].flow
                /\ calls[i].request = RequestOf(invocations[k].flow, invocations[k].input)
    /\ Len(calls) = Len(invocations)
    /\ Cardinality(outstanding) = IF flow_pc = "awaiting" THEN 1 ELSE 0

C7_Witness ==
    /\ Len(invocations) = 2
    /\ invocations[1].flow = "say_hi"
    /\ invocations[2].flow = "say_hi"
    /\ invocations[1].input = invocations[2].input
    /\ Len(calls) = 2
    /\ calls[1].request = calls[2].request
    /\ flow_pc = "done"
    /\ outcome.kind = "raise"

(* C8: in main() the flows run strictly one after the other: at most one    *)
(* backend call is outstanding at any time, and main() issues a flow's call *)
(* only when the previous flow has completed and its result is printed.     *)
C8_MainIsSequential ==
    /\ [](Cardinality(outstanding) <= 1)
    /\ [][MainCalls' # MainCalls =>
            /\ outstanding = {}
            /\ flow_pc \in {"idle", "done"}
            /\ Len(MainCalls') = Len(MainCalls) + 1
            /\ Len(stdout) = Len(MainCalls)
            /\ Len(MainCalls) > 0 =>
                  /\ outcome.kind = "return"
                  /\ stdout[Len(stdout)] = outcome.value]_vars

C8_Witness ==
    /\ main_pc.state = "await"
    /\ main_pc.stmt = 2
    /\ flow_pc = "awaiting"
    /\ Cardinality(outstanding) = 1
    /\ Len(stdout) = 1
    /\ FlowsCalled(MainCalls) = << "say_hi", "say_hi_constrained" >>

(* C9: a failure is terminal: a flow whose backend call or response         *)
(* handling fails sends no further call and ends with that failure; main()  *)
(* ends with it too, sends no further call and starts no further flow, so   *)
(* the calls of main() are always a prefix of say_hi, say_hi_constrained,   *)
(* calculate_gablorken.                                                     *)
MainFailed == cur.by = "main" /\ flow_pc = "done" /\ outcome.kind = "raise"

C9_FailureIsTerminal ==
    /\ [](FlowsCalled(MainCalls) = SubSeq(MainOrder, 1, Len(MainCalls)))
    /\ []((flow_pc = "done" /\ outcome.kind = "raise") =>
             Cardinality(CallsOfInv(Len(invocations))) = 1)
    /\ [](main_pc.state = "raised" =>
             /\ MainFailed
             /\ main_pc.error = outcome.error
             /\ outstanding = {}
             /\ Len(MainCalls) = main_pc.stmt
             /\ dunder_name = "__main__" =>
                   (proc = "crashed" /\ proc_error = main_pc.error))
    /\ [][(flow_pc = "ready" /\ ~gen.ok) =>
            /\ outcome'.kind = "raise"
            /\ outcome'.error = gen.error
            /\ calls' = calls]_vars
    /\ [][MainFailed =>
            /\ main_pc'.state = "raised"
            /\ calls' = calls
            /\ invocations' = invocations
            /\ stdout' = stdout]_vars

C9_Witness ==
    /\ main_pc.state = "raised"
    /\ main_pc.stmt = 2
    /\ main_pc.error = "ConnectionError"
    /\ FlowsCalled(calls) = << "say_hi", "say_hi_constrained" >>
    /\ Len(stdout) = 1

(* C10: calculate_gablorken(value) sends its single request to the second   *)
(* model (mistral-nemo:latest), with the tool gablorken_tool declared, with *)
(* GablorkenOutputSchema as output schema and with one user message whose   *)
(* text names gablorken_tool and contains value; no other flow declares a   *)
(* tool or targets the second model.                                        *)
C10_GablorkenRequest ==
    /\ (cur.flow = "calculate_gablorken" /\ flow_pc # "idle") =>
          /\ CallsOfInv(Len(invocations)) = {Len(calls)}
          /\ plugin_params.models[2].name = "mistral-nemo:latest"
          /\ LastCall.request.model = ollama_name(plugin_params.models[2].name)
          /\ LastCall.request.tools = << "gablorken_tool" >>
          /\ "gablorken_tool" \in DOMAIN RegisteredTools
          /\ LastCall.request.output_schema = "GablorkenOutputSchema"
          /\ Len(LastCall.request.messages) = 1
          /\ LastCall.request.messages[1].role = "user"
          /\ Len(LastCall.request.messages[1].content) = 1
          /\ Contains(LastCall.request.messages[1].content[1].text, "gablorken_tool")
          /\ EndsWithInt(LastCall.request.messages[1].content[1].text, cur.input)
    /\ \A i \in 1..Len(calls) :
          calls[i].flow # "calculate_gablorken" =>
              /\ calls[i].request.tools = <<>>
              /\ calls[i].request.model # ollama_name(MISTRAL_MODEL)

C10_Witness ==
    /\ Len(calls) = 2
    /\ calls[1].flow = "say_hi_constrained"
    /\ cur.flow = "calculate_gablorken"
    /\ cur.input = 0 - 3
    /\ flow_pc = "awaiting"
    /\ LastCall.request.messages[1].content[1].text = "run \"gablorken_tool\" for -3"

====
